---- MODULE Spec2Model ----
(***************************************************************************)
(* Model of the naive Bayes classifier of package naive                    *)
(* (src/naive/naive.go): the frequency store (Feat2cat, CatCount), the     *)
(* RWMutex that guards it, and the handlers Train, ClassifyString and      *)
(* Probabilities run by concurrent goroutines.                             *)
(*                                                                         *)
(* float64 values are modelled as exact rationals <<num, den>> in lowest   *)
(* terms (den > 0), so every statement about a score is a statement in     *)
(* exact arithmetic.                                                       *)
(***************************************************************************)
EXTENDS Integers, Sequences, FiniteSets, TLC

\* ------------------------------------------------------------- bounds
\* Train calls a run of the training-only specification may start.
MaxTrain == 4
\* Train calls a run of the sequential specification may start.
MaxTrainSeq == 3
\* Train calls a run of the concurrent specification may start.
MaxTrainConc == 2
\* Train calls a run of the test's specification may start.
MaxTrainTest == 4
\* Words in a document of the sequential and training-only specifications.
MaxLen == 2

\* ------------------------------------------------- exact arithmetic
RECURSIVE GCD(_, _)
GCD(a, b) == IF b = 0 THEN a ELSE GCD(b, a % b)

\* The rational n/d (n >= 0, d > 0) in lowest terms.
Rat(n, d) == LET g == GCD(n, d) IN <<n \div g, d \div g>>

FromInt(n) == <<n, 1>>
RAdd(x, y) == Rat(x[1] * y[2] + y[1] * x[2], x[2] * y[2])
RMul(x, y) == LET g1 == GCD(x[1], y[2])
                  g2 == GCD(y[1], x[2])
              IN  <<(x[1] \div g1) * (y[1] \div g2), (x[2] \div g2) * (y[2] \div g1)>>
\* x / y for y # 0 (the handlers never divide by zero: see probability).
RDiv(x, y) == RMul(x, <<y[2], y[1]>>)
RECURSIVE FracLt(_, _, _, _)
\* a/b < c/d for a, c >= 0 and b, d > 0, by continued fractions (no products).
FracLt(a, b, c, d) ==
    IF a \div b # c \div d THEN a \div b < c \div d
    ELSE IF c % d = 0 THEN FALSE
    ELSE IF a % b = 0 THEN TRUE
    ELSE FracLt(d, c % d, b, a % b)
RLt(x, y) == FracLt(x[1], x[2], y[1], y[2])
RLe(x, y) == ~RLt(y, x)
Zero == <<0, 1>>
Half == <<1, 2>>
One == <<1, 1>>

RECURSIVE SumOver(_, _)
\* The sum of f[k] over the keys k of S.
SumOver(f, S) == IF S = {} THEN 0
                 ELSE LET k == CHOOSE x \in S : TRUE
                      IN  f[k] + SumOver(f, S \ {k})

RECURSIVE Occurrences(_, _)
\* How often x occurs in the sequence s.
Occurrences(s, x) == IF s = <<>> THEN 0
                     ELSE (IF Head(s) = x THEN 1 ELSE 0) + Occurrences(Tail(s), x)

Range(s) == {s[i] : i \in DOMAIN s}

\* ------------------------------------------------------- input universes
Goroutines == {"g1", "g2", "g3"}
\* Category labels are opaque strings; the empty string is one of them.
Categories == {"", "A"}
ConcCategories == {"A", "B"}
Words == {"a", "B"}
SeqsUpTo(S, n) == UNION {[1..k -> S] : k \in 0..n}
Texts == SeqsUpTo(Words, MaxLen)
Tokens == {"a", "b"}
ConcTexts == {<<>>, <<"a">>}

\* The documents and labels of TestSimpleClassifier.
TestDocs == {<<"German", "Shepherd">>, <<"Pointer">>, <<"Black", "kitty">>,
             <<"White", "kitten">>}
TestQueries == {<<"Kitty">>}
TestCategories == {"Dog", "Cat"}

\* An io.Reader over a document: it yields the first `ok` words and then
\* fails; ok = Len(words) is a reader that reaches EOF without an error.
Readers(T) == UNION {{[words |-> t, ok |-> n] : n \in 0..Len(t)} : t \in T}
AsReader(text) == [words |-> text, ok |-> Len(text)]
ReaderFails(r) == r.ok < Len(r.words)

\* ----------------------------------------------------------- tokenizer
ToLower(w) == CASE w = "B" -> "b"
                [] w = "German" -> "german"
                [] w = "Shepherd" -> "shepherd"
                [] w = "Pointer" -> "pointer"
                [] w = "Black" -> "black"
                [] w = "White" -> "white"
                [] w = "Kitty" -> "kitty"
                [] OTHER -> w

\* The tokens the channel of Tokenizer.Tokenize(r) delivers before it is
\* closed: the lower-cased words read before the reader ends or fails.
Tokenize(r) == [i \in 1..r.ok |-> ToLower(r.words[i])]

\* ------------------------------------------------ the frequency store
\* A store c is [Feat2cat |-> map feature -> (map category -> int),
\*              CatCount |-> map category -> int]; a Go map is a function
\* whose domain is the set of keys present.
NewStore == [Feat2cat |-> <<>>, CatCount |-> <<>>]

\* m[k]++ on a Go map of ints: an absent key counts as 0.
Incr(m, k) == IF k \in DOMAIN m THEN [m EXCEPT ![k] = @ + 1]
              ELSE [x \in DOMAIN m \cup {k} |-> IF x = k THEN 1 ELSE m[x]]

\* addFeature storing 1 instead of incrementing the count.
addFeatureSetsOne(c, feature, category) ==
    LET inner == IF feature \in DOMAIN c.Feat2cat THEN c.Feat2cat[feature] ELSE <<>>
        inner2 == [k \in DOMAIN inner \cup {category} |-> IF k = category THEN 1 ELSE inner[k]]
    IN  [c EXCEPT !.Feat2cat =
            [f \in DOMAIN c.Feat2cat \cup {feature} |->
                IF f = feature THEN inner2 ELSE c.Feat2cat[f]]]

addFeature(c, feature, category) ==
    LET inner == IF feature \in DOMAIN c.Feat2cat THEN c.Feat2cat[feature] ELSE <<>>
        inner2 == Incr(inner, category)
    IN  [c EXCEPT !.Feat2cat =
            [f \in DOMAIN c.Feat2cat \cup {feature} |->
                IF f = feature THEN inner2 ELSE c.Feat2cat[f]]]

featureCount(c, feature, category) ==
    IF feature \in DOMAIN c.Feat2cat
    THEN (IF category \in DOMAIN c.Feat2cat[feature] THEN c.Feat2cat[feature][category] ELSE 0)
    ELSE 0

\* addCategory storing 1 instead of incrementing the count.
addCategorySetsOne(c, category) ==
    [c EXCEPT !.CatCount =
        [k \in DOMAIN c.CatCount \cup {category} |-> IF k = category THEN 1 ELSE c.CatCount[k]]]

addCategory(c, category) == [c EXCEPT !.CatCount = Incr(c.CatCount, category)]

categoryCount(c, category) ==
    IF category \in DOMAIN c.CatCount THEN c.CatCount[category] ELSE 0

count(c) == SumOver(c.CatCount, DOMAIN c.CatCount)

\* The keys of CatCount; the order of the slice is Go's map iteration
\* order, which the handlers' loops choose nondeterministically.
categories(c) == DOMAIN c.CatCount

featureProbability(c, feature, category) ==
    IF categoryCount(c, category) = 0 THEN Zero
    ELSE Rat(featureCount(c, feature, category), categoryCount(c, category))

\* variableWeightedProbability without the assumed probability's term.
variableWeightedProbabilityUnsmoothed(c, feature, category, weight, assumedProb) ==
    featureProbability(c, feature, category)

\* variableWeightedProbability with the evidence not weighted by its count.
variableWeightedProbabilityUnweighted(c, feature, category, weight, assumedProb) ==
    LET sum == SumOver([k \in categories(c) |-> featureCount(c, feature, k)], categories(c))
        probability == featureProbability(c, feature, category)
    IN  RDiv(RAdd(RMul(weight, assumedProb), probability), RAdd(weight, FromInt(sum)))

\* variableWeightedProbability counting the feature in its own category only.
variableWeightedProbabilityOwnCategory(c, feature, category, weight, assumedProb) ==
    LET sum == featureCount(c, feature, category)
        probability == featureProbability(c, feature, category)
    IN  RDiv(RAdd(RMul(weight, assumedProb), RMul(FromInt(sum), probability)),
             RAdd(weight, FromInt(sum)))

variableWeightedProbability(c, feature, category, weight, assumedProb) ==
    LET sum == SumOver([k \in categories(c) |-> featureCount(c, feature, k)], categories(c))
        probability == featureProbability(c, feature, category)
    IN  RDiv(RAdd(RMul(weight, assumedProb), RMul(FromInt(sum), probability)),
             RAdd(weight, FromInt(sum)))

\* weightedProbability with an assumed probability of 0.
weightedProbabilityAssumingZero(c, feature, category) ==
    variableWeightedProbability(c, feature, category, One, Zero)

weightedProbability(c, feature, category) ==
    variableWeightedProbability(c, feature, category, One, Half)

RECURSIVE docProbability(_, _, _)
docProbability(c, features, category) ==
    IF features = <<>> THEN One
    ELSE RMul(weightedProbability(c, Head(features), category),
              docProbability(c, Tail(features), category))

\* Called only for the categories of categories(c), so count(c) >= 1.
probability(c, features, category) ==
    LET categoryProbability == Rat(categoryCount(c, category), count(c))
    IN  RMul(docProbability(c, features, category), categoryProbability)

\* ------------------------------------------------------------- state
VARIABLES
    Feat2cat,        \* Classifier.Feat2cat
    CatCount,        \* Classifier.CatCount
    mu,              \* Classifier.mu: [w: the writer or "none", r: the readers,
                     \*                 pending: the goroutines blocked in Lock()]
    pc,              \* where each goroutine is in its handler
    local,           \* each goroutine's arguments, locals and return value
    trainCalls,      \* Train calls started
    trainsCompleted  \* Train calls that have returned

vars == <<Feat2cat, CatCount, mu, pc, local, trainCalls, trainsCompleted>>

\* The receiver's store as the handlers see it.
cur == [Feat2cat |-> Feat2cat, CatCount |-> CatCount]

Idle == [op |-> "none", r |-> AsReader(<<>>), category |-> "", tokens |-> <<>>,
         emitted |-> <<>>, features |-> <<>>, todo |-> {}, probabilities |-> <<>>,
         max |-> Zero, classification |-> "", ret |-> "none", pre |-> NewStore]

Init ==
    /\ Feat2cat = NewStore.Feat2cat
    /\ CatCount = NewStore.CatCount
    /\ mu = [w |-> "none", r |-> {}, pending |-> {}]
    /\ pc = [g \in Goroutines |-> "idle"]
    /\ local = [g \in Goroutines |-> Idle]
    /\ trainCalls = 0
    /\ trainsCompleted = 0

\* ------------------------------------------------------ sync.RWMutex
\* Lock() that does not wait for the readers.
CanLockDespiteReaders(g) == mu.w = "none"
\* Lock() returns once no goroutine holds the lock for reading or writing.
CanLock(g) == mu.w = "none" /\ mu.r = {}
\* RLock() returns once no writer holds the lock and none is blocked in Lock().
CanRLock(g) == mu.w = "none" /\ mu.pending = {}

\* -------------------------------------------------------------- Train
\* Train(r, category) is called and blocks in c.mu.Lock().
TrainCall(g, r, category, limit) ==
    /\ pc[g] = "idle"
    /\ trainCalls < limit
    /\ pc' = [pc EXCEPT ![g] = "Lock"]
    /\ local' = [local EXCEPT ![g] = [Idle EXCEPT !.op = "Train", !.r = r, !.category = category]]
    /\ mu' = [mu EXCEPT !.pending = @ \cup {g}]
    /\ trainCalls' = trainCalls + 1
    /\ UNCHANGED <<Feat2cat, CatCount, trainsCompleted>>

\* c.mu.Lock() returns; c.Tokenizer.Tokenize(r) opens the channel of tokens.
TrainLock(g) ==
    /\ pc[g] = "Lock"
    /\ CanLock(g)
    /\ mu' = [mu EXCEPT !.w = g, !.pending = @ \ {g}]
    /\ pc' = [pc EXCEPT ![g] = "range"]
    /\ local' = [local EXCEPT ![g].tokens = Tokenize(local[g].r), ![g].pre = cur]
    /\ UNCHANGED <<Feat2cat, CatCount, trainCalls, trainsCompleted>>

\* One iteration of `for feature := range ...`: c.addFeature(feature, category).
TrainAddFeature(g) ==
    /\ pc[g] = "range"
    /\ local[g].tokens # <<>>
    /\ LET feature == Head(local[g].tokens)
           c == addFeature(cur, feature, local[g].category)
       IN  /\ Feat2cat' = c.Feat2cat
           /\ CatCount' = c.CatCount
           /\ local' = [local EXCEPT ![g].tokens = Tail(@), ![g].emitted = Append(@, feature)]
    /\ UNCHANGED <<mu, pc, trainCalls, trainsCompleted>>

\* The channel is closed: c.addCategory(category); return nil.
TrainAddCategory(g) ==
    /\ pc[g] = "range"
    /\ local[g].tokens = <<>>
    /\ LET c == addCategory(cur, local[g].category)
       IN  /\ Feat2cat' = c.Feat2cat
           /\ CatCount' = c.CatCount
    /\ local' = [local EXCEPT ![g].ret = [err |-> "nil"]]
    /\ pc' = [pc EXCEPT ![g] = "Unlock"]
    /\ UNCHANGED <<mu, trainCalls, trainsCompleted>>

\* The deferred c.mu.Unlock(); Train has returned.
TrainUnlock(g) ==
    /\ pc[g] = "Unlock"
    /\ mu' = [mu EXCEPT !.w = "none"]
    /\ pc' = [pc EXCEPT ![g] = "idle"]
    /\ local' = [local EXCEPT ![g] = Idle]
    /\ trainsCompleted' = trainsCompleted + 1
    /\ UNCHANGED <<Feat2cat, CatCount, trainCalls>>

\* ----------------------------------- ClassifyString and Probabilities
\* ClassifyString(s) or Probabilities(s) is called: the locals are set
\* (max := 0.0, classification := "", an empty probabilities map) and the
\* call blocks in c.mu.RLock().
ReadCall(g, op, stringToClassify) ==
    /\ pc[g] = "idle"
    /\ pc' = [pc EXCEPT ![g] = "RLock"]
    /\ local' = [local EXCEPT ![g] = [Idle EXCEPT !.op = op, !.r = AsReader(stringToClassify)]]
    /\ UNCHANGED <<Feat2cat, CatCount, mu, trainCalls, trainsCompleted>>

\* c.mu.RLock() returns; the features are collected from the tokenizer and
\* c.categories() is read for the loop.
ReadRLock(g) ==
    /\ pc[g] = "RLock"
    /\ CanRLock(g)
    /\ mu' = [mu EXCEPT !.r = @ \cup {g}]
    /\ pc' = [pc EXCEPT ![g] = "loop"]
    /\ local' = [local EXCEPT ![g].features = Tokenize(local[g].r),
                              ![g].todo = categories(cur),
                              ![g].pre = cur]
    /\ UNCHANGED <<Feat2cat, CatCount, trainCalls, trainsCompleted>>

\* The body of ClassifyString's loop for one category, on locals l.
ClassifyStringBody(l, c, category) ==
    LET p == probability(c, l.features, category)
        probabilities == [k \in DOMAIN l.probabilities \cup {category} |->
                             IF k = category THEN p ELSE l.probabilities[k]]
    IN  IF RLt(l.max, p)
        THEN [l EXCEPT !.probabilities = probabilities, !.max = p, !.classification = category]
        ELSE [l EXCEPT !.probabilities = probabilities]

\* Probabilities' loop body comparing prob with 0 instead of best.
ProbabilitiesBodyLastPositive(l, c, category) ==
    LET prob == probability(c, l.features, category)
        probabilities == IF RLt(Zero, prob)
                         THEN [k \in DOMAIN l.probabilities \cup {category} |->
                                  IF k = category THEN prob ELSE l.probabilities[k]]
                         ELSE l.probabilities
    IN  IF RLt(Zero, prob)
        THEN [l EXCEPT !.probabilities = probabilities, !.max = prob, !.classification = category]
        ELSE [l EXCEPT !.probabilities = probabilities]

\* The body of Probabilities' loop for one category (best is max, cat is
\* classification).
ProbabilitiesBody(l, c, category) ==
    LET prob == probability(c, l.features, category)
        probabilities == IF RLt(Zero, prob)
                         THEN [k \in DOMAIN l.probabilities \cup {category} |->
                                  IF k = category THEN prob ELSE l.probabilities[k]]
                         ELSE l.probabilities
    IN  IF RLt(l.max, prob)
        THEN [l EXCEPT !.probabilities = probabilities, !.max = prob, !.classification = category]
        ELSE [l EXCEPT !.probabilities = probabilities]

\* One iteration of `for _, category := range c.categories()`, the next
\* category being whichever the map iteration order put next.
ReadScore(g) ==
    /\ pc[g] = "loop"
    /\ \E category \in local[g].todo :
          LET l == [local[g] EXCEPT !.todo = @ \ {category}]
          IN  local' = [local EXCEPT ![g] =
                  IF l.op = "ClassifyString" THEN ClassifyStringBody(l, cur, category)
                  ELSE ProbabilitiesBody(l, cur, category)]
    /\ UNCHANGED <<Feat2cat, CatCount, mu, pc, trainCalls, trainsCompleted>>

\* What ClassifyString returns after its loop, on locals l.
ClassifyStringResult(l) ==
    IF l.classification = "" THEN [val |-> "", err |-> "ErrNotClassified"]
    ELSE [val |-> l.classification, err |-> "nil"]

\* What Probabilities returns after its loop, on locals l.
ProbabilitiesResult(l) == [probabilities |-> l.probabilities, cat |-> l.classification]

\* The loop is over: the return value is set.
ReadReturn(g) ==
    /\ pc[g] = "loop"
    /\ local[g].todo = {}
    /\ local' = [local EXCEPT ![g].ret =
            IF local[g].op = "ClassifyString" THEN ClassifyStringResult(local[g])
            ELSE ProbabilitiesResult(local[g])]
    /\ pc' = [pc EXCEPT ![g] = "RUnlock"]
    /\ UNCHANGED <<Feat2cat, CatCount, mu, trainCalls, trainsCompleted>>

\* The deferred c.mu.RUnlock(); the call has returned.
ReadRUnlock(g) ==
    /\ pc[g] = "RUnlock"
    /\ mu' = [mu EXCEPT !.r = @ \ {g}]
    /\ pc' = [pc EXCEPT ![g] = "idle"]
    /\ local' = [local EXCEPT ![g] = Idle]
    /\ UNCHANGED <<Feat2cat, CatCount, trainCalls, trainsCompleted>>

\* ------------------------------------------------------ specifications
\* The steps of Train calls by goroutines G on documents of T with labels of C.
TrainSteps(G, T, C, limit) ==
    \E g \in G :
        \/ \E r \in Readers(T), category \in C : TrainCall(g, r, category, limit)
        \/ TrainLock(g)
        \/ TrainAddFeature(g)
        \/ TrainAddCategory(g)
        \/ TrainUnlock(g)

\* The steps of ClassifyString and Probabilities calls by goroutines G on
\* the strings of Q.
ReadSteps(G, Q) ==
    \E g \in G :
        \/ \E op \in {"ClassifyString", "Probabilities"}, s \in Q : ReadCall(g, op, s)
        \/ ReadRLock(g)
        \/ ReadScore(g)
        \/ ReadReturn(g)
        \/ ReadRUnlock(g)

\* One goroutine that trains and classifies, any documents and labels.
Next == TrainSteps({"g1"}, Texts, Categories, MaxTrainSeq) \/ ReadSteps({"g1"}, Texts)
Spec == Init /\ [][Next]_vars

\* One goroutine that only trains: the store's reachable states.
NextTrain == TrainSteps({"g1"}, Texts, Categories, MaxTrain)
SpecTrain == Init /\ [][NextTrain]_vars

\* Goroutines calling the handlers concurrently.
NextConc == TrainSteps(Goroutines, ConcTexts, ConcCategories, MaxTrainConc)
               \/ ReadSteps(Goroutines, ConcTexts)
SpecConc == Init /\ [][NextConc]_vars

\* The calls of TestSimpleClassifier, in any order and number.
NextTest == TrainSteps({"g1"}, TestDocs, TestCategories, MaxTrainTest)
               \/ ReadSteps({"g1"}, TestQueries)
SpecTest == Init /\ [][NextTest]_vars

\* ------------------------------------------------------------- claims
AllCategories == Categories \cup ConcCategories \cup TestCategories
AllTokens == Tokens \cup {"german", "shepherd", "pointer", "black", "kitty", "white", "kitten"}
\* A Train call is in progress in goroutine g.
InTrain(g) == pc[g] \in {"Lock", "range", "Unlock"}
\* A ClassifyString or Probabilities call of g holds the read lock.
InRead(g) == pc[g] \in {"loop", "RUnlock"}
\* No call is in progress. The store changes only inside a Train call and
\* every call returns, so the stores of these states are the stores any
\* classification can read.
Settled == \A g \in Goroutines : pc[g] = "idle"
\* The tokens observed in documents of category k.
Vocabulary(c, k) == {t \in AllTokens : featureCount(c, t, k) > 0}
\* How often token t has been observed, over all categories.
Observed(c, t) ==
    IF t \in DOMAIN c.Feat2cat THEN SumOver(c.Feat2cat[t], DOMAIN c.Feat2cat[t]) ELSE 0
FeatureLists == SeqsUpTo(Tokens, MaxLen)

\* The store after Train(r, category) on store pre, each token t of the
\* document counted n(t) times.
TrainedFrom(g, times(_)) ==
    LET l == local[g]
    IN  /\ \A t \in AllTokens, k \in AllCategories :
              featureCount(cur, t, k) =
                  featureCount(l.pre, t, k) + (IF k = l.category THEN times(t) ELSE 0)
        /\ \A k \in AllCategories :
              categoryCount(cur, k) =
                  categoryCount(l.pre, k) + (IF k = l.category THEN 1 ELSE 0)

\* C1 as stated: when Train(text, category) has made its updates, the count
\* of every token of the text under the category is one more than before,
\* the category's document count is one more, and nothing else has changed.
C1_TrainAddsOne ==
    \A g \in Goroutines : pc[g] = "Unlock" =>
        TrainedFrom(g, LAMBDA t : IF t \in Range(Tokenize(local[g].r)) THEN 1 ELSE 0)

\* C1 amended: when Train(text, category) has made its updates, the count of
\* every token under the category has grown by the number of times the
\* tokenizer delivered it, the category's document count by one, and no
\* other count has changed.
C1_TrainAddsOccurrences ==
    \A g \in Goroutines : pc[g] = "Unlock" =>
        TrainedFrom(g, LAMBDA t : Occurrences(Tokenize(local[g].r), t))

\* C1's case: a Train call on a store that already counts the token has
\* delivered the same token twice.
C1_Witness ==
    /\ pc["g1"] = "Unlock"
    /\ local["g1"].emitted = <<"b", "b">>
    /\ local["g1"].r.words = <<"B", "B">>
    /\ featureCount(local["g1"].pre, "b", local["g1"].category) = 1
    /\ featureCount(cur, "b", local["g1"].category) = 3

\* C2: whenever no Train call is in progress, the document counts of all
\* categories add up to the number of Train calls that have returned.
C2_CountIsCompletedTrains ==
    (\A g \in Goroutines : ~InTrain(g)) => count(cur) = trainsCompleted

\* C2's case: two Train calls have returned, none is in progress, and a
\* classification is running.
C2_Witness ==
    /\ \A g \in Goroutines : ~InTrain(g)
    /\ trainsCompleted = 2
    /\ Cardinality(DOMAIN CatCount) = 2
    /\ \E g \in Goroutines : pc[g] = "loop"

\* The scores Probabilities keeps for the features on store c.
PositiveScores(c, features) ==
    [k \in {x \in categories(c) : RLt(Zero, probability(c, features, x))} |->
        probability(c, features, k)]

\* C3: while a classification holds the read lock the store is the one it
\* locked, every score it has computed is the score of that store, at most
\* one Train call is inside its critical section, and none is while a
\* classification holds the read lock.
C3_ReadersSeeOneStore ==
    /\ \A g \in Goroutines : InRead(g) =>
          /\ cur = local[g].pre
          /\ \A k \in DOMAIN local[g].probabilities :
                local[g].probabilities[k] = probability(local[g].pre, local[g].features, k)
          /\ pc[g] = "RUnlock" =>
                DOMAIN local[g].probabilities =
                    IF local[g].op = "ClassifyString" THEN categories(local[g].pre)
                    ELSE DOMAIN PositiveScores(local[g].pre, local[g].features)
    /\ Cardinality({g \in Goroutines : pc[g] \in {"range", "Unlock"}}) <= 1
    /\ (\E g \in Goroutines : pc[g] \in {"range", "Unlock"}) =>
          \A g \in Goroutines : ~InRead(g)

\* C3's case: two classifications are in progress at once on a trained
\* store while a Train call waits for the lock.
C3_Witness ==
    /\ pc["g1"] = "loop" /\ local["g1"].op = "ClassifyString"
    /\ local["g1"].probabilities # <<>>
    /\ pc["g2"] = "loop" /\ local["g2"].op = "Probabilities"
    /\ pc["g3"] = "Lock"
    /\ trainsCompleted >= 1

\* C4 as stated: ClassifyString returns ErrNotClassified exactly when no
\* category scores above zero, and otherwise a category of maximal score
\* with a nil error.
C4_NotClassifiedIffNoPositiveScore ==
    \A g \in Goroutines : (pc[g] = "RUnlock" /\ local[g].op = "ClassifyString") =>
        LET l == local[g]
            score(k) == probability(cur, l.features, k)
            nonePositive == \A k \in categories(cur) : ~RLt(Zero, score(k))
        IN  /\ (l.ret.err = "ErrNotClassified") <=> nonePositive
            /\ ~nonePositive =>
                  /\ l.ret.err = "nil"
                  /\ l.ret.val \in categories(cur)
                  /\ \A k \in categories(cur) : RLe(score(k), score(l.ret.val))

\* C5 as stated: a Train call whose tokenizer failed returns an error and
\* has left the store as it was.
C5_FailedTrainIsAtomic ==
    \A g \in Goroutines : (pc[g] = "Unlock" /\ ReaderFails(local[g].r)) =>
        /\ local[g].ret.err # "nil"
        /\ cur = local[g].pre

\* The store after TestSimpleClassifier's four TrainString calls.
TestStore ==
    [Feat2cat |-> ("german" :> ("Dog" :> 1)) @@ ("shepherd" :> ("Dog" :> 1))
                    @@ ("pointer" :> ("Dog" :> 1)) @@ ("black" :> ("Cat" :> 1))
                    @@ ("kitty" :> ("Cat" :> 1)) @@ ("white" :> ("Cat" :> 1))
                    @@ ("kitten" :> ("Cat" :> 1)),
     CatCount |-> ("Dog" :> 2) @@ ("Cat" :> 2)]

\* C6: Probabilities returns exactly the categories that score above zero,
\* each with its score, and a best category of maximal score, or the empty
\* map and the empty string when there is none; after the test's four
\* training calls "Kitty" scores Cat above Dog and Cat is the best.
C6_ProbabilitiesResult ==
    \A g \in Goroutines : (pc[g] = "RUnlock" /\ local[g].op = "Probabilities") =>
        LET l == local[g]
            scores == PositiveScores(cur, Tokenize(l.r))
        IN  /\ l.ret.probabilities = scores
            /\ IF DOMAIN scores = {} THEN l.ret.cat = ""
               ELSE /\ l.ret.cat \in DOMAIN scores
                    /\ \A k \in DOMAIN scores : RLe(scores[k], scores[l.ret.cat])
            /\ (cur = TestStore /\ l.r.words = <<"Kitty">>) =>
                  /\ RLt(l.ret.probabilities["Dog"], l.ret.probabilities["Cat"])
                  /\ l.ret.cat = "Cat"

\* C6's case: Probabilities("Kitty") has run on the test's store.
C6_Witness ==
    /\ pc["g1"] = "RUnlock" /\ local["g1"].op = "Probabilities"
    /\ cur = TestStore
    /\ local["g1"].r.words = <<"Kitty">>
    /\ local["g1"].ret.probabilities = ("Dog" :> <<1, 8>>) @@ ("Cat" :> <<1, 4>>)

\* Categories A and B are trained on disjoint, non-empty vocabularies and
\* the features are a non-empty text of A's vocabulary.
DisjointCase(A, B, features) ==
    /\ A # B
    /\ A \in categories(cur) /\ B \in categories(cur)
    /\ Vocabulary(cur, A) # {} /\ Vocabulary(cur, B) # {}
    /\ Vocabulary(cur, A) \cap Vocabulary(cur, B) = {}
    /\ features # <<>>
    /\ Range(features) \subseteq Vocabulary(cur, A)

\* C7 as stated: with A and B trained on disjoint vocabularies, a text of
\* A's tokens gives B a score that is not zero and not A's score.
C7_DisjointNeverEqual ==
    Settled =>
        \A A \in AllCategories, B \in AllCategories, features \in FeatureLists :
            DisjointCase(A, B, features) =>
                /\ probability(cur, features, B) # Zero
                /\ probability(cur, features, B) # probability(cur, features, A)

\* C7 amended: with A and B trained on disjoint vocabularies, a text of A's
\* tokens gives B a score that is not zero, and a score strictly below A's
\* whenever B has no more training documents than A.
C7_DisjointBelowWhenNotMoreDocuments ==
    Settled =>
        \A A \in AllCategories, B \in AllCategories, features \in FeatureLists :
            DisjointCase(A, B, features) =>
                /\ probability(cur, features, B) # Zero
                /\ categoryCount(cur, B) <= categoryCount(cur, A) =>
                      RLt(probability(cur, features, B), probability(cur, features, A))

\* C7's case: two categories with two documents each and disjoint
\* vocabularies, and a two-token text of the first one's.
C7_Witness ==
    /\ Settled
    /\ DisjointCase("A", "", <<"a", "a">>)
    /\ categoryCount(cur, "A") = 2 /\ categoryCount(cur, "") = 2
    /\ probability(cur, <<"a", "a">>, "") = <<1, 72>>

\* C8 as stated: a Train call that adds a document containing t to category
\* c does not lower weightedProbability(t, c).
C8_WeightedNeverDrops ==
    \A g \in Goroutines : pc[g] = "Unlock" =>
        \A t \in Range(local[g].emitted) :
            RLe(weightedProbability(local[g].pre, t, local[g].category),
                weightedProbability(cur, t, local[g].category))

\* C8 amended: a Train call that adds a document containing t to category c
\* does not lower weightedProbability(t, c) when, before the call, c had no
\* documents or featureProbability(t, c) was between 1/2 and 1.
C8_WeightedNeverDropsFromHalf ==
    \A g \in Goroutines : pc[g] = "Unlock" =>
        \A t \in Range(local[g].emitted) :
            LET pre == local[g].pre
                c == local[g].category
            IN  (\/ categoryCount(pre, c) = 0
                 \/ /\ RLe(Half, featureProbability(pre, t, c))
                    /\ RLe(featureProbability(pre, t, c), One)) =>
                    RLe(weightedProbability(pre, t, c), weightedProbability(cur, t, c))

\* C8's case: a document with t is added to a category in which t had
\* probability 1/2, with t also seen elsewhere, and the weighted probability
\* has grown.
C8_Witness ==
    /\ pc["g1"] = "Unlock"
    /\ "a" \in Range(local["g1"].emitted)
    /\ featureProbability(local["g1"].pre, "a", local["g1"].category) = Half
    /\ Observed(local["g1"].pre, "a") = 2
    /\ RLt(weightedProbability(local["g1"].pre, "a", local["g1"].category),
           weightedProbability(cur, "a", local["g1"].category))

\* C9 as stated: weightedProbability(t, c) is 1/2 exactly when t has never
\* been observed in any category.
C9_HalfIffUnobserved ==
    Settled =>
        \A t \in Tokens, c \in Categories :
            (weightedProbability(cur, t, c) = Half) <=> (Observed(cur, t) = 0)

\* C9 amended: weightedProbability(t, c) is 1/2 exactly when t has never
\* been observed in any category or featureProbability(t, c) is 1/2.
C9_HalfIffUnobservedOrHalf ==
    Settled =>
        \A t \in Tokens, c \in Categories :
            (weightedProbability(cur, t, c) = Half) <=>
                (Observed(cur, t) = 0 \/ featureProbability(cur, t, c) = Half)

\* C9's case: of two tokens observed in other categories, one has weighted
\* probability 1/2 and the other has not, and a third token is unobserved.
C9_Witness ==
    /\ Settled
    /\ Observed(cur, "a") = 3 /\ Observed(cur, "b") = 0
    /\ featureProbability(cur, "a", "A") = Half
    /\ weightedProbability(cur, "a", "A") = Half
    /\ weightedProbability(cur, "a", "") # Half
    /\ weightedProbability(cur, "b", "") = Half

\* C10: once a Train call has returned, every trained category scores above
\* zero on every token list, so Probabilities returns an entry for every
\* trained category and a best category among them.
C10_ScoresPositive ==
    /\ (Settled /\ trainsCompleted >= 1) =>
          \A features \in FeatureLists, k \in categories(cur) :
              RLt(Zero, probability(cur, features, k))
    /\ \A g \in Goroutines :
          (pc[g] = "RUnlock" /\ local[g].op = "Probabilities" /\ trainsCompleted >= 1) =>
              /\ DOMAIN local[g].ret.probabilities = categories(cur)
              /\ local[g].ret.cat \in categories(cur)
              /\ RLt(Zero, local[g].ret.probabilities[local[g].ret.cat])

\* C10's case: Probabilities has scored a text of tokens that one of two
\* trained categories has never seen.
C10_Witness ==
    /\ pc["g1"] = "RUnlock" /\ local["g1"].op = "Probabilities"
    /\ local["g1"].features = <<"b", "b">>
    /\ DOMAIN CatCount = {"", "A"}
    /\ featureCount(cur, "b", "") = 0 /\ featureCount(cur, "b", "A") = 3
    /\ local["g1"].ret.cat = "A"
====
